---------------------------- MODULE Spec2Model ----------------------------
(***************************************************************************)
(* A model of the prometheus example application (src/main.go): the        *)
(* ServeMux routing table, the five handlers, the promhttp instrumentation *)
(* wrappers and the hashRandomData loop.                                   *)
(*                                                                         *)
(* Go's int and time.Duration are 64-bit two's complement integers.  They  *)
(* are modelled at their true width, as little-endian sequences of eight   *)
(* byte limbs, so that parsing, multiplication and addition wrap exactly   *)
(* where the program's do.  Strings are sequences of one-character         *)
(* strings.                                                                *)
(***************************************************************************)
EXTENDS Integers, Sequences, FiniteSets, TLC

VARIABLES
  conn,                 \* per connection: the request being served and its handler's locals
  hasher,               \* per connection: the frame of a running hashRandomData call
  httpRequestsTotal,    \* counter vector, by <<code, method>>
  httpRequestDuration,  \* histogram vector, by <<code, handler, method>>: observations
  arrived,              \* requests accepted so far
  completed             \* requests whose response is complete so far

vars == <<conn, hasher, httpRequestsTotal, httpRequestDuration, arrived, completed>>

-----------------------------------------------------------------------------
(* 64-bit machine integers *)

\* Width in bits of Go's int on the 64-bit builds, and of int64/time.Duration.
IntSize == 64

NLimbs == IntSize \div 8

Limbs == 1..NLimbs

\* The word holding a small natural number n (n < 2^31).
W(n) ==
  [i \in Limbs |->
     CASE i = 1 -> n % 256
       [] i = 2 -> (n \div 256) % 256
       [] i = 3 -> (n \div 65536) % 256
       [] i = 4 -> (n \div 16777216) % 256
       [] OTHER -> 0]

RECURSIVE AddC(_, _, _, _)
AddC(a, b, i, c) ==
  IF i > NLimbs THEN << >>
  ELSE LET s == a[i] + b[i] + c
       IN  <<s % 256>> \o AddC(a, b, i + 1, s \div 256)

\* a + b, wrapping modulo 2^IntSize.
Add64(a, b) == AddC(a, b, 1, 0)

\* The carry out of a + b: TRUE iff the unsigned sum does not fit.
RECURSIVE CarryOut(_, _, _, _)
CarryOut(a, b, i, c) ==
  IF i > NLimbs THEN c > 0
  ELSE CarryOut(a, b, i + 1, (a[i] + b[i] + c) \div 256)

RECURSIVE ColSum(_, _, _, _)
ColSum(a, b, k, i) ==
  IF i > k THEN 0 ELSE a[i] * b[k + 1 - i] + ColSum(a, b, k, i + 1)

RECURSIVE MulC(_, _, _, _)
MulC(a, b, k, c) ==
  IF k > NLimbs THEN << >>
  ELSE LET s == ColSum(a, b, k, 1) + c
       IN  <<s % 256>> \o MulC(a, b, k + 1, s \div 256)

\* a * b, wrapping modulo 2^IntSize.
Mul64(a, b) == MulC(a, b, 1, 0)

\* -a in two's complement.
Neg64(a) == Add64([i \in Limbs |-> 255 - a[i]], W(1))

\* The sign bit.
IsNeg(a) == a[NLimbs] >= 128

RECURSIVE CmpU(_, _, _)
CmpU(a, b, i) ==
  IF i = 0 THEN 0
  ELSE IF a[i] < b[i] THEN -1
  ELSE IF a[i] > b[i] THEN 1
  ELSE CmpU(a, b, i - 1)

\* Unsigned a < b.
LtU(a, b) == CmpU(a, b, NLimbs) < 0

\* Signed a < b.
LtS(a, b) == IF IsNeg(a) # IsNeg(b) THEN IsNeg(a) ELSE LtU(a, b)

\* Unsigned division of a word by 10: <<quotient, remainder>>.
RECURSIVE DivC(_, _, _)
DivC(a, i, r) ==
  IF i = 0 THEN <<<< >>, r>>
  ELSE LET cur  == r * 256 + a[i]
           rest == DivC(a, i - 1, cur % 10)
       IN  <<rest[1] \o <<cur \div 10>>, rest[2]>>

DivMod10(a) == DivC(a, NLimbs, 0)

MaxUint64 == [i \in Limbs |-> 255]

MaxInt64 == [i \in Limbs |-> IF i = NLimbs THEN 127 ELSE 255]

MinInt64 == [i \in Limbs |-> IF i = NLimbs THEN 128 ELSE 0]

-----------------------------------------------------------------------------
(* strconv.Atoi and fmt's %d *)

DigitChars == <<"0", "1", "2", "3", "4", "5", "6", "7", "8", "9">>

IsDigit(c) == \E i \in 1..10 : DigitChars[i] = c

DigitVal(c) == (CHOOSE i \in 1..10 : DigitChars[i] = c) - 1

ErrNone == "nil"
ErrSyntax == "ErrSyntax"
ErrRange == "ErrRange"

\* The accumulation loop n = n*10 + ch of Atoi's fast path; a byte outside
\* '0'..'9' is a syntax error with result 0.
RECURSIVE FastLoop(_, _, _)
FastLoop(s, i, n) ==
  IF i > Len(s) THEN [n |-> n, err |-> ErrNone]
  ELSE IF ~IsDigit(s[i]) THEN [n |-> W(0), err |-> ErrSyntax]
  ELSE \* (the singleton sets make TLC compute each value once, before it recurses)
       CHOOSE r \in {FastLoop(s, i + 1, n1) :
                      n1 \in {Add64(n10, W(DigitVal(s[i]))) : n10 \in {Mul64(n, W(10))}}} : TRUE

\* strconv.ParseUint(s, 10, 64): the cutoff test before each n *= 10 and the
\* wrap test after each n + d; overflow returns the maximum with ErrRange at
\* once, without reading the remaining bytes.
RECURSIVE ParseUintLoop(_, _, _)
ParseUintLoop(s, i, n) ==
  IF i > Len(s) THEN [n |-> n, err |-> ErrNone]
  ELSE IF ~IsDigit(s[i]) THEN [n |-> W(0), err |-> ErrSyntax]
  ELSE LET cutoff == Add64(DivMod10(MaxUint64)[1], W(1))
           n10    == Mul64(n, W(10))
           d      == W(DigitVal(s[i]))
       IN  IF ~LtU(n, cutoff) THEN [n |-> MaxUint64, err |-> ErrRange]
           ELSE IF CarryOut(n10, d, 1, 0) THEN [n |-> MaxUint64, err |-> ErrRange]
           ELSE ParseUintLoop(s, i + 1, Add64(n10, d))

ParseUint(s) ==
  IF s = << >> THEN [n |-> W(0), err |-> ErrSyntax] ELSE ParseUintLoop(s, 1, W(0))

\* strconv.ParseInt(s, 10, 0): a value outside the int range is clamped to
\* the nearest bound and returned together with ErrRange.
ParseInt(s) ==
  IF s = << >> THEN [n |-> W(0), err |-> ErrSyntax]
  ELSE LET neg    == s[1] = "-"
           digits == IF s[1] \in {"+", "-"} THEN Tail(s) ELSE s
           un     == ParseUint(digits)
           cutoff == MinInt64      \* 1 << (IntSize-1), read unsigned
       IN  IF un.err = ErrSyntax THEN [n |-> W(0), err |-> ErrSyntax]
           ELSE IF ~neg /\ ~LtU(un.n, cutoff) THEN [n |-> MaxInt64, err |-> ErrRange]
           ELSE IF neg /\ LtU(cutoff, un.n) THEN [n |-> MinInt64, err |-> ErrRange]
           ELSE [n |-> IF neg THEN Neg64(un.n) ELSE un.n, err |-> ErrNone]

\* strconv.Atoi(s): <<value, error>> as a record.
Atoi(s) ==
  IF 0 < Len(s) /\ Len(s) < 19
  THEN LET digits == IF s[1] \in {"+", "-"} THEN Tail(s) ELSE s
           r      == FastLoop(digits, 1, W(0))
       IN  IF Len(digits) < 1 THEN [n |-> W(0), err |-> ErrSyntax]
           ELSE IF r.err # ErrNone THEN r
           ELSE [n |-> IF s[1] = "-" THEN Neg64(r.n) ELSE r.n, err |-> ErrNone]
  ELSE ParseInt(s)

RECURSIVE UDigits(_)
UDigits(a) ==
  LET qr == DivMod10(a)
  IN  IF qr[1] = W(0) THEN <<DigitChars[qr[2] + 1]>>
      ELSE UDigits(qr[1]) \o <<DigitChars[qr[2] + 1]>>

\* fmt's %d of an int: the decimal digits, with a leading '-' when negative.
FormatInt(a) == IF IsNeg(a) THEN <<"-">> \o UDigits(Neg64(a)) ELSE UDigits(a)


-----------------------------------------------------------------------------
(* Bounds of the model *)

\* Requests accepted in one behaviour.
MaxRequests == 3

\* hashRandomData calls one request may make before the model stops following it.
MaxCalls == 5

\* The direct calls of hashRandomData cover byte counts around 0..MaxChunks buffers.
MaxChunks == 6

\* Connections served concurrently.
Slots == {1, 2}

-----------------------------------------------------------------------------
(* Requests *)

Str_err == <<"e", "r", "r">>
Str_internal_err == <<"i", "n", "t", "e", "r", "n", "a", "l", "-", "e", "r", "r">>
Str_wait == <<"w", "a", "i", "t">>
Str_hash == <<"h", "a", "s", "h">>
Str_metrics == <<"m", "e", "t", "r", "i", "c", "s">>
Str_foo == <<"f", "o", "o">>

\* Path parameters a client may send.
P_abc == <<"a", "b", "c">>
P_0 == <<"0">>
P_1 == <<"1">>
P_2 == <<"2">>
P_neg3 == <<"-", "3">>
P_plus07 == <<"+", "0", "7">>
\* 9223372036 = floor((2^63-1) / 10^9), and the next integer
P_9223372036 == <<"9", "2", "2", "3", "3", "7", "2", "0", "3", "6">>
P_9223372037 == <<"9", "2", "2", "3", "3", "7", "2", "0", "3", "7">>
\* 2^43, 2^44 and 2^44 + 1
P_8796093022208 == <<"8", "7", "9", "6", "0", "9", "3", "0", "2", "2", "2", "0", "8">>
P_17592186044416 == <<"1", "7", "5", "9", "2", "1", "8", "6", "0", "4", "4", "4", "1", "6">>
P_17592186044417 == <<"1", "7", "5", "9", "2", "1", "8", "6", "0", "4", "4", "4", "1", "7">>
\* 2^63 - 1, 2^63 and -(2^63) - 1
P_MaxInt == <<"9", "2", "2", "3", "3", "7", "2", "0", "3", "6", "8", "5", "4", "7", "7", "5", "8", "0", "7">>
P_MaxIntPlus1 == <<"9", "2", "2", "3", "3", "7", "2", "0", "3", "6", "8", "5", "4", "7", "7", "5", "8", "0", "8">>
P_MinIntMinus1 == <<"-", "9", "2", "2", "3", "3", "7", "2", "0", "3", "6", "8", "5", "4", "7", "7", "5", "8", "0", "9">>

\* A request path is the sequence of its segments; "/" is one empty segment
\* and a trailing slash is a final empty segment.  Paths are clean (no empty
\* inner segment, no dot segments).
PathRoot == << << >> >>

Methods == {"GET", "POST"}

\* promhttp labels the method in lower case.
MethodLabel(m) == IF m = "GET" THEN "get" ELSE IF m = "POST" THEN "post" ELSE "unknown"

MethodLabels == {MethodLabel(m) : m \in Methods}

HandlerNames == {"found"}

StatusOK == 200
StatusMovedPermanently == 301
StatusNotFound == 404
StatusInternalServerError == 500

Codes == {StatusOK, StatusMovedPermanently, StatusNotFound, StatusInternalServerError}

-----------------------------------------------------------------------------
(* The routing table of lines 104-113, as http.ServeMux resolves it: a      *)
(* literal segment is preferred to a {wildcard}, a {wildcard} (which needs  *)
(* a non-empty segment) to a trailing-slash subtree, and a path without a   *)
(* trailing slash whose only exact match is the subtree pattern with the    *)
(* slash added is answered by the mux's own redirect.                       *)

Route(p) ==
  CASE p = <<Str_err>> -> "/err"
    [] p = <<Str_internal_err>> -> "/internal-err"
    [] p = <<Str_metrics>> -> "/metrics"
    [] p = <<Str_wait>> \/ p = <<Str_hash>> -> "redirect"
    [] p[1] = Str_wait /\ Len(p) = 2 /\ p[2] # << >> -> "/wait/{waitSec}"
    [] p[1] = Str_wait /\ Len(p) >= 2 /\ ~(Len(p) = 2 /\ p[2] # << >>) -> "/wait/"
    [] p[1] = Str_hash /\ Len(p) = 3 /\ p[2] # << >> /\ p[3] # << >> -> "/hash/{mb}/{iterations}"
    [] p[1] = Str_hash /\ Len(p) = 2 /\ p[2] # << >> -> "/hash/{mb}"
    [] p[1] = Str_hash /\ Len(p) >= 2
         /\ ~(Len(p) = 3 /\ p[2] # << >> /\ p[3] # << >>)
         /\ ~(Len(p) = 2 /\ p[2] # << >>) -> "/hash/"
    [] OTHER -> "/"

\* r.PathValue(name): the segment the matched pattern binds to name, "" if none.
PathValue(p, name) ==
  LET pattern == Route(p)
  IN  CASE name = "waitSec" /\ pattern = "/wait/{waitSec}" -> p[2]
        [] name = "mb" /\ pattern \in {"/hash/{mb}", "/hash/{mb}/{iterations}"} -> p[2]
        [] name = "iterations" /\ pattern = "/hash/{mb}/{iterations}" -> p[3]
        [] OTHER -> << >>

-----------------------------------------------------------------------------
(* State *)

NoBody == << >>

IdleConn ==
  [pc |-> "idle", overlap |-> FALSE, method |-> "", path |-> << >>, pattern |-> "",
   status |-> 0, body |-> NoBody,
   waitSec |-> W(0), slept |-> W(0),
   mb |-> W(0), iterations |-> W(0), calls |-> 0, hash |-> << >>]

IdleHasher ==
  [pc |-> "off", bytesToProcess |-> W(0), bytesProcessed |-> W(0),
   h |-> << >>, written |-> 0, result |-> << >>]

Init ==
  /\ conn = [s \in Slots |-> IdleConn]
  /\ hasher = [s \in Slots |-> IdleHasher]
  /\ httpRequestsTotal = [k \in Codes \X MethodLabels |-> 0]
  /\ httpRequestDuration = [k \in Codes \X HandlerNames \X MethodLabels |-> 0]
  /\ arrived = 0
  /\ completed = 0

-----------------------------------------------------------------------------
(* Handlers and instrumentation *)

\* promhttp.InstrumentHandlerCounter: after the wrapped handler returns,
\* counter.With(code, method).Inc().
CounterInc(counter, code, method) ==
  [counter EXCEPT ![<<code, MethodLabel(method)>>] = @ + 1]

\* promhttp.InstrumentHandlerDuration over the vector curried with
\* handler="found": after the wrapped handler returns, one Observe.
DurationObserve(hist, code, method) ==
  [hist EXCEPT ![<<code, "found", MethodLabel(method)>>] = @ + 1]

\* The server accepts a request on a free connection and the mux picks the
\* handler for its path.  overlap records whether some other request was
\* asleep in the wait handler at that moment.
Arrive(s, m, p) ==
  /\ conn[s].pc = "idle"
  /\ arrived < MaxRequests
  /\ conn' = [conn EXCEPT ![s] =
                [IdleConn EXCEPT !.pc = "handler", !.method = m, !.path = p,
                                 !.pattern = Route(p),
                                 !.overlap = \E t \in Slots : conn[t].pc = "sleeping"]]
  /\ arrived' = arrived + 1
  /\ UNCHANGED <<hasher, httpRequestsTotal, httpRequestDuration, completed>>

\* Pattern "/": foundChain, the duration wrapper around the counter wrapper
\* around foundHandler.
FoundChain(s) ==
  /\ conn[s].pc = "handler"
  /\ conn[s].pattern = "/"
  /\ conn' = [conn EXCEPT ![s].pc = "done", ![s].status = StatusOK,
                          ![s].body = <<"Hello from example application.">>]
  /\ httpRequestsTotal' = CounterInc(httpRequestsTotal, StatusOK, conn[s].method)
  /\ httpRequestDuration' = DurationObserve(httpRequestDuration, StatusOK, conn[s].method)
  /\ completed' = completed + 1
  /\ UNCHANGED <<hasher, arrived>>

\* NotfoundHandler as it would be had it answered with http.NotFound, which
\* writes a body.
NotfoundHandler_WithBody(s) ==
  /\ conn[s].pc = "handler"
  /\ conn[s].pattern = "/err"
  /\ conn' = [conn EXCEPT ![s].pc = "done", ![s].status = StatusNotFound,
                          ![s].body = <<"404 page not found">>]
  /\ httpRequestsTotal' = CounterInc(httpRequestsTotal, StatusNotFound, conn[s].method)
  /\ completed' = completed + 1
  /\ UNCHANGED <<hasher, httpRequestDuration, arrived>>

\* Pattern "/err": the counter wrapper around notfoundHandler.
NotfoundHandler(s) ==
  /\ conn[s].pc = "handler"
  /\ conn[s].pattern = "/err"
  /\ conn' = [conn EXCEPT ![s].pc = "done", ![s].status = StatusNotFound]
  /\ httpRequestsTotal' = CounterInc(httpRequestsTotal, StatusNotFound, conn[s].method)
  /\ completed' = completed + 1
  /\ UNCHANGED <<hasher, httpRequestDuration, arrived>>

\* Pattern "/internal-err": the counter wrapper around internalErrorHandler.
InternalErrorHandler(s) ==
  /\ conn[s].pc = "handler"
  /\ conn[s].pattern = "/internal-err"
  /\ conn' = [conn EXCEPT ![s].pc = "done", ![s].status = StatusInternalServerError]
  /\ httpRequestsTotal' =
       CounterInc(httpRequestsTotal, StatusInternalServerError, conn[s].method)
  /\ completed' = completed + 1
  /\ UNCHANGED <<hasher, httpRequestDuration, arrived>>

\* Pattern "/metrics": promhttp.HandlerFor(r, ...), registered without any
\* instrumentation wrapper; the body is the snapshot of the registry.
MetricsHandler(s) ==
  /\ conn[s].pc = "handler"
  /\ conn[s].pattern = "/metrics"
  /\ conn' = [conn EXCEPT ![s].pc = "done", ![s].status = StatusOK,
                          ![s].body = <<[version |-> 1,
                                         http_requests_total |-> httpRequestsTotal,
                                         http_request_duration_seconds |->
                                           httpRequestDuration]>>]
  /\ completed' = completed + 1
  /\ UNCHANGED <<hasher, httpRequestsTotal, httpRequestDuration, arrived>>

\* The mux's own trailing-slash redirect ("/wait" to "/wait/", "/hash" to
\* "/hash/"): no registered handler and no wrapper runs.
RedirectHandler(s) ==
  /\ conn[s].pc = "handler"
  /\ conn[s].pattern = "redirect"
  /\ conn' = [conn EXCEPT ![s].pc = "done", ![s].status = StatusMovedPermanently,
                          ![s].body = <<"redirect to ">> \o conn[s].path[1] \o <<"/">>]
  /\ completed' = completed + 1
  /\ UNCHANGED <<hasher, httpRequestsTotal, httpRequestDuration, arrived>>

\* time.Second, in nanoseconds: 10^9.
Second == Mul64(W(1000000), W(1000))

\* The default of lines 69-71, 80-82 and 85-87: the error of Atoi is
\* discarded and only the value is compared with 1.
OrDefault(n) == IF LtS(n, W(1)) THEN W(5) ELSE n

\* time.Duration(waitSec) * time.Second
SleepDuration(waitSec) == Mul64(waitSec, Second)

\* time.Sleep(d) returns at once when d <= 0; the time it pauses otherwise.
Slept(d) == IF LtS(W(0), d) THEN d ELSE W(0)

\* waitHandler, lines 67-72: parse, default, and go to sleep.
WaitHandlerSleep(s) ==
  /\ conn[s].pc = "handler"
  /\ conn[s].pattern \in {"/wait/{waitSec}", "/wait/"}
  /\ \E waitSecStr \in {PathValue(conn[s].path, "waitSec")} :
     \E parsed \in {Atoi(waitSecStr)} :
     \E waitSec \in {OrDefault(parsed.n)} :
     \E d \in {SleepDuration(waitSec)} :
       conn' = [conn EXCEPT ![s].pc = "sleeping", ![s].waitSec = waitSec,
                            ![s].slept = Slept(d)]
  /\ UNCHANGED <<hasher, httpRequestsTotal, httpRequestDuration, arrived, completed>>

\* WaitHandlerWake as it would be had the handlers shared a lock taken for
\* the whole of waitHandler: a sleeper wakes only when no other one sleeps.
WaitHandlerWake_Locked(s) ==
  /\ conn[s].pc = "sleeping"
  /\ \A t \in Slots \ {s} : conn[t].pc # "sleeping"
  /\ conn' = [conn EXCEPT ![s].pc = "done", ![s].status = StatusOK,
                          ![s].body = <<"Waited for ">>
                                        \o PathValue(conn[s].path, "waitSec")
                                        \o <<" seconds.">>]
  /\ httpRequestsTotal' = CounterInc(httpRequestsTotal, StatusOK, conn[s].method)
  /\ completed' = completed + 1
  /\ UNCHANGED <<hasher, httpRequestDuration, arrived>>

\* waitHandler, lines 73-74, and the counter wrapper: the sleep is over.
WaitHandlerWake(s) ==
  /\ conn[s].pc = "sleeping"
  /\ conn' = [conn EXCEPT ![s].pc = "done", ![s].status = StatusOK,
                          ![s].body = <<"Waited for ">>
                                        \o PathValue(conn[s].path, "waitSec")
                                        \o <<" seconds.">>]
  /\ httpRequestsTotal' = CounterInc(httpRequestsTotal, StatusOK, conn[s].method)
  /\ completed' = completed + 1
  /\ UNCHANGED <<hasher, httpRequestDuration, arrived>>

\* hashHandler, lines 78-89: parse and default both parameters.
HashHandlerParse(s) ==
  /\ conn[s].pc = "handler"
  /\ conn[s].pattern \in {"/hash/{mb}/{iterations}", "/hash/{mb}", "/hash/"}
  /\ \E iterationsStr \in {PathValue(conn[s].path, "iterations")} :
     \E parsedIterations \in {Atoi(iterationsStr)} :
     \E iterations \in {OrDefault(parsedIterations.n)} :
     \E mbStr \in {PathValue(conn[s].path, "mb")} :
     \E parsedMb \in {Atoi(mbStr)} :
     \E mb \in {OrDefault(parsedMb.n)} :
       conn' = [conn EXCEPT ![s].pc = "hashing", ![s].iterations = iterations,
                            ![s].mb = mb, ![s].calls = 0]
  /\ UNCHANGED <<hasher, httpRequestsTotal, httpRequestDuration, arrived, completed>>

\* mb * 1024 * 1024, in int arithmetic.
BytesToProcess(mb) == Mul64(Mul64(mb, W(1024)), W(1024))

\* hashHandler, lines 90-91: one more round of "for range iterations" calls
\* hashRandomData(mb * 1024 * 1024); lines 126-130 set up its frame.
HashHandlerCall(s) ==
  /\ conn[s].pc = "hashing"
  /\ LtS(W(conn[s].calls), conn[s].iterations)
  /\ conn[s].calls < MaxCalls
  /\ conn' = [conn EXCEPT ![s].pc = "calling", ![s].hash = << >>]
  /\ hasher' = [hasher EXCEPT ![s] =
                  [IdleHasher EXCEPT !.pc = "loop",
                                     !.bytesToProcess = BytesToProcess(conn[s].mb)]]
  /\ UNCHANGED <<httpRequestsTotal, httpRequestDuration, arrived, completed>>

\* Size in bytes of the buffer of line 126.
BufferSize == 1024

\* Size in bytes of a SHA-256 digest.
Sha256Size == 32

\* Bytes a digest may be made of: one below 16 (a leading zero in hex) and
\* one above 159 (two letters in hex).
SampleBytes == {10, 171}

\* hasher.Sum(nil): the digest of everything written so far, Sha256Size
\* bytes whose value depends on the random data.
Sum(b) == [i \in 1..Sha256Size |-> b]

\* The loop test as it would be with <= for <.
LoopCond_Leq(f) == ~LtS(f.bytesToProcess, f.bytesProcessed)

\* The loop test of line 131.
LoopCond(f) == LtS(f.bytesProcessed, f.bytesToProcess)

HexChars == <<"0", "1", "2", "3", "4", "5", "6", "7", "8", "9",
              "a", "b", "c", "d", "e", "f">>

\* fmt.Sprintf("%x", h) of a byte slice: two lower-case digits per byte.
RECURSIVE Hex(_)
Hex(h) ==
  IF h = << >> THEN << >>
  ELSE <<HexChars[(Head(h) \div 16) + 1], HexChars[(Head(h) % 16) + 1]>> \o Hex(Tail(h))

\* Lines 132-135, one iteration of the loop: the buffer is filled, written to
\* the digest, h is the digest so far (its bytes b depend on the random
\* data) and the count grows by len(buffer).
LoopBody(f, b) ==
  [f EXCEPT !.h = Sum(b), !.written = @ + 1,
            !.bytesProcessed = Add64(@, W(BufferSize))]

\* Line 138, after the loop: the hex of h.
Return(f) == [f EXCEPT !.pc = "returned", !.result = Hex(f.h)]

\* hashRandomData, lines 131-138: the loop test, followed by one iteration
\* or by the return.
HashRandomData(s) ==
  /\ hasher[s].pc = "loop"
  /\ IF LoopCond(hasher[s])
       THEN \E b \in SampleBytes : hasher' = [hasher EXCEPT ![s] = LoopBody(@, b)]
       ELSE hasher' = [hasher EXCEPT ![s] = Return(@)]
  /\ UNCHANGED <<conn, httpRequestsTotal, httpRequestDuration, arrived, completed>>

\* hashHandler, lines 91-92: take the result, print it, next round.
HashHandlerLog(s) ==
  /\ conn[s].pc = "calling"
  /\ hasher[s].pc = "returned"
  /\ conn' = [conn EXCEPT ![s].pc = "hashing", ![s].hash = hasher[s].result,
                          ![s].calls = @ + 1]
  /\ hasher' = [hasher EXCEPT ![s] = IdleHasher]
  /\ UNCHANGED <<httpRequestsTotal, httpRequestDuration, arrived, completed>>

\* hashHandler, lines 94-96, and the counter wrapper: the rounds are over.
HashHandlerRespond(s) ==
  /\ conn[s].pc = "hashing"
  /\ ~LtS(W(conn[s].calls), conn[s].iterations)
  /\ conn' = [conn EXCEPT ![s].pc = "done", ![s].status = StatusOK,
                          ![s].body = <<"Hashing ">> \o FormatInt(conn[s].mb)
                                        \o <<" mb, ">> \o FormatInt(conn[s].iterations)
                                        \o <<" times took ">> \o <<"elapsed">>]
  /\ httpRequestsTotal' = CounterInc(httpRequestsTotal, StatusOK, conn[s].method)
  /\ completed' = completed + 1
  /\ UNCHANGED <<hasher, httpRequestDuration, arrived>>

\* The response has been sent; the connection is free for another request.
Close(s) ==
  /\ conn[s].pc = "done"
  /\ conn' = [conn EXCEPT ![s] = IdleConn]
  /\ UNCHANGED <<hasher, httpRequestsTotal, httpRequestDuration, arrived, completed>>

\* The steps of a request to "/", "/err", "/internal-err", "/metrics" or a
\* path the mux redirects.
ServeStatic(s) ==
  \/ FoundChain(s)
  \/ NotfoundHandler(s)
  \/ InternalErrorHandler(s)
  \/ MetricsHandler(s)
  \/ RedirectHandler(s)

\* The steps of a request to the wait handler.
ServeWait(s) ==
  \/ WaitHandlerSleep(s)
  \/ WaitHandlerWake(s)

\* The steps of a request to the hash handler.
ServeHash(s) ==
  \/ HashHandlerParse(s)
  \/ HashHandlerCall(s)
  \/ HashRandomData(s)
  \/ HashHandlerLog(s)
  \/ HashHandlerRespond(s)

\* Every step of the request on connection s after its arrival.
Serve(s) == ServeStatic(s) \/ ServeWait(s) \/ ServeHash(s)

-----------------------------------------------------------------------------
(* Specifications *)

\* Spec: the server under concurrent load, requests of every route on two
\* connections.  The one hash request offered here asks for 2^44 mb, so its
\* calls of hashRandomData return without an iteration; hash requests whose
\* loops run are followed one at a time in SpecParams.
ServerPaths ==
  { PathRoot, <<Str_foo>>, <<Str_err>>, <<Str_internal_err>>, <<Str_metrics>>,
    <<Str_wait>>, <<Str_wait, << >> >>, <<Str_wait, P_2>>,
    <<Str_hash, P_17592186044416, P_1>> }

Next ==
  \/ \E s \in Slots, m \in Methods, p \in ServerPaths : Arrive(s, m, p)
  \/ \E s \in Slots : Serve(s)
  \/ \E s \in Slots : Close(s)

Spec == Init /\ [][Next]_vars

\* SpecParams: one GET request, to the wait or the hash handler, with any
\* of the parameter strings.
WaitParams ==
  { P_abc, P_0, P_1, P_2, P_neg3, P_plus07, P_9223372036, P_9223372037,
    P_MaxInt, P_MaxIntPlus1, P_MinIntMinus1 }

ParamPaths ==
  {<<Str_wait, << >> >>, <<Str_wait, P_1, P_2>>}
    \cup {<<Str_wait, w>> : w \in WaitParams}
    \cup { <<Str_hash, << >> >>, <<Str_hash, P_1>>,
           <<Str_hash, P_1, P_1>>, <<Str_hash, P_1, P_2>>, <<Str_hash, P_2, P_1>>,
           <<Str_hash, P_0, P_1>>, <<Str_hash, P_1, P_neg3>>,
           <<Str_hash, P_abc, P_MinIntMinus1, P_1>>,
           <<Str_hash, P_8796093022208, P_1>>,
           <<Str_hash, P_17592186044416, P_2>>,
           <<Str_hash, P_17592186044417, P_1>>,
           <<Str_hash, P_MaxInt, P_1>>,
           <<Str_hash, P_MaxIntPlus1, P_1>>,
           <<Str_hash, P_1, P_MaxIntPlus1>> }

NextParams ==
  \/ \E p \in ParamPaths : arrived = 0 /\ Arrive(1, "GET", p)
  \/ ServeWait(1)
  \/ ServeHash(1)

SpecParams == Init /\ [][NextParams]_vars

\* SpecHasher: hashRandomData called directly, with byte counts on both
\* sides of every multiple of the buffer size up to MaxChunks buffers.
TestBytes ==
  {k * BufferSize + d : k \in 0..MaxChunks, d \in {-1, 0, 1}}

\* The word of a small integer of either sign.
WInt(n) == IF n < 0 THEN Neg64(W(-n)) ELSE W(n)

InitHasher ==
  /\ conn = [s \in Slots |-> IdleConn]
  /\ \E n \in TestBytes :
       hasher = [s \in Slots |->
                   IF s = 1 THEN [IdleHasher EXCEPT !.pc = "loop",
                                                    !.bytesToProcess = WInt(n)]
                   ELSE IdleHasher]
  /\ httpRequestsTotal = [k \in Codes \X MethodLabels |-> 0]
  /\ httpRequestDuration = [k \in Codes \X HandlerNames \X MethodLabels |-> 0]
  /\ arrived = 0
  /\ completed = 0

NextHasher == HashRandomData(1)

SpecHasher == InitHasher /\ [][NextHasher]_vars

\* The goroutine running the call is scheduled until the call returns.
SpecHasherFair == SpecHasher /\ WF_vars(NextHasher)

-----------------------------------------------------------------------------
(* What a parameter string denotes, read as decimal text.  These do not use *)
(* the machine arithmetic above: numbers are sequences of decimal digits.   *)

\* An optional sign followed by at least one digit.
IsIntSyntax(s) ==
  /\ s # << >>
  /\ LET d == IF s[1] \in {"+", "-"} THEN Tail(s) ELSE s
     IN  d # << >> /\ \A i \in 1..Len(d) : IsDigit(d[i])

RECURSIVE StripZeros(_)
StripZeros(d) == IF Len(d) > 1 /\ d[1] = "0" THEN StripZeros(Tail(d)) ELSE d

\* The digits of |s| without leading zeros.
Magnitude(s) == StripZeros(IF s[1] \in {"+", "-"} THEN Tail(s) ELSE s)

IsMinus(s) == s[1] = "-"

RECURSIVE LexLeq(_, _)
LexLeq(a, b) ==
  IF a = << >> THEN TRUE
  ELSE IF DigitVal(a[1]) # DigitVal(b[1]) THEN DigitVal(a[1]) < DigitVal(b[1])
  ELSE LexLeq(Tail(a), Tail(b))

\* a <= b for digit strings without leading zeros.
DecLeq(a, b) == Len(a) < Len(b) \/ (Len(a) = Len(b) /\ LexLeq(a, b))

\* s denotes an integer that Go's int holds: -2^63 .. 2^63 - 1.
InIntRange(s) ==
  IF IsMinus(s) THEN DecLeq(Magnitude(s), Magnitude(P_MaxIntPlus1))
  ELSE DecLeq(Magnitude(s), P_MaxInt)

\* s parses as an int, and to a value >= 1.
ParsesPositive(s) ==
  IsIntSyntax(s) /\ InIntRange(s) /\ ~IsMinus(s) /\ Magnitude(s) # <<"0">>

\* s is absent, fails to parse as an int, or parses to a value < 1.
NeedsDefault(s) == ~ParsesPositive(s)

RECURSIVE NatDigits(_)
NatDigits(n) ==
  IF n < 10 THEN <<DigitChars[n + 1]>> ELSE NatDigits(n \div 10) \o <<DigitChars[(n % 10) + 1]>>

\* The digits of d * k, for a small k.
RECURSIVE DecTimesC(_, _, _, _)
DecTimesC(d, k, i, c) ==
  IF i = 0 THEN (IF c = 0 THEN << >> ELSE NatDigits(c))
  ELSE LET r == DigitVal(d[i]) * k + c
       IN  DecTimesC(d, k, i - 1, r \div 10) \o <<DigitChars[(r % 10) + 1]>>

DecTimes(d, k) == StripZeros(DecTimesC(d, k, Len(d), 0))

\* s seconds in nanoseconds: the digits of s followed by nine zeros.
TrueNanoseconds(s) == Magnitude(s) \o <<"0", "0", "0", "0", "0", "0", "0", "0", "0">>

\* mb * 1024 * 1024, exactly.
TrueBytes(s) == DecTimes(Magnitude(s), 1048576)

RECURSIVE SumOver(_, _)
SumOver(f, keys) ==
  IF keys = {} THEN 0
  ELSE LET k == CHOOSE x \in keys : TRUE IN f[k] + SumOver(f, keys \ {k})

\* The sum of a metric vector over all its label combinations.
Total(f) == SumOver(f, DOMAIN f)

IsWait(c) == c.pattern \in {"/wait/{waitSec}", "/wait/"}

IsHash(c) == c.pattern \in {"/hash/{mb}/{iterations}", "/hash/{mb}", "/hash/"}

IsLowerHex64(x) == Len(x) = 64 /\ \A i \in 1..Len(x) : \E j \in 1..16 : HexChars[j] = x[i]

\* The value of a word known to be small, of either sign.
SmallVal(w) ==
  LET u == IF IsNeg(w) THEN Neg64(w) ELSE w
      v == u[1] + 256 * u[2] + 65536 * u[3]
  IN  IF IsNeg(w) THEN -v ELSE v

-----------------------------------------------------------------------------
(* Claims *)

\* C1: after any N completed requests, to any route (/metrics and paths
\* that match no specific pattern included), the sum of http_requests_total
\* over all its label combinations is N.
C1_CounterSumIsCompleted == Total(httpRequestsTotal) = completed

\* C2: a wait request whose waitSec is absent, fails to parse (non-numeric,
\* or digits outside the int range) or parses below 1 sleeps 5 seconds and
\* answers 200 "Waited for <raw> seconds." with the raw parameter string.
C2_WaitDefault ==
  \A s \in Slots :
    LET c == conn[s] raw == PathValue(c.path, "waitSec") IN
      (IsWait(c) /\ c.pc = "done" /\ NeedsDefault(raw)) =>
        /\ FormatInt(c.slept) = TrueNanoseconds(<<"5">>)
        /\ c.status = 200
        /\ c.body = <<"Waited for ">> \o raw \o <<" seconds.">>

\* C3: a wait request whose waitSec parses to s >= 1 sleeps exactly s
\* seconds (s * 10^9 ns, unwrapped) and answers 200 with a body holding s.
C3_WaitExact ==
  \A s \in Slots :
    LET c == conn[s] raw == PathValue(c.path, "waitSec") IN
      (IsWait(c) /\ c.pc = "done" /\ ParsesPositive(raw)) =>
        /\ FormatInt(c.slept) = TrueNanoseconds(raw)
        /\ c.status = 200
        /\ c.body = <<"Waited for ">> \o raw \o <<" seconds.">>

\* C4: with mb >= 1 and iterations >= 1 both parsing, the hash handler calls
\* hashRandomData exactly iterations times, each call is given the true
\* product mb*1024*1024 and processes at least that many bytes, and the
\* answer is 200 with a body naming mb and iterations.
C4_HashWork ==
  \A s \in Slots :
    LET c     == conn[s]
        mbStr == PathValue(c.path, "mb")
        itStr == PathValue(c.path, "iterations")
    IN  (IsHash(c) /\ ParsesPositive(mbStr) /\ ParsesPositive(itStr)) =>
          /\ hasher[s].pc = "returned" =>
               /\ FormatInt(hasher[s].bytesToProcess) = TrueBytes(mbStr)
               /\ ~IsNeg(hasher[s].bytesProcessed)
               /\ DecLeq(TrueBytes(mbStr), FormatInt(hasher[s].bytesProcessed))
          /\ c.pc = "done" =>
               /\ NatDigits(c.calls) = Magnitude(itStr)
               /\ c.status = 200
               /\ c.body = <<"Hashing ">> \o Magnitude(mbStr) \o <<" mb, ">>
                             \o Magnitude(itStr) \o <<" times took ", "elapsed">>

\* The value a hash parameter is to take: 5 when it needs the default, its
\* own value otherwise.
Effective(s) == IF NeedsDefault(s) THEN <<"5">> ELSE Magnitude(s)

\* C5: on each hash route, mb and iterations are defaulted independently:
\* a parameter that is absent, fails to parse or parses below 1 becomes 5,
\* the other keeps its value, and the body reports the effective values.
C5_HashDefaults ==
  \A s \in Slots :
    LET c     == conn[s]
        mbStr == PathValue(c.path, "mb")
        itStr == PathValue(c.path, "iterations")
    IN  (IsHash(c) /\ c.pc # "handler") =>
          /\ FormatInt(c.mb) = Effective(mbStr)
          /\ FormatInt(c.iterations) = Effective(itStr)
          /\ c.pc = "done" =>
               c.body = <<"Hashing ">> \o Effective(mbStr) \o <<" mb, ">>
                          \o Effective(itStr) \o <<" times took ", "elapsed">>

\* C6: every value hashRandomData returns to the hash handler is 64
\* lower-case hexadecimal characters, never an empty or shorter string.
C6_HashFormat ==
  \A s \in Slots :
    /\ (IsHash(conn[s]) /\ hasher[s].pc = "returned") => IsLowerHex64(hasher[s].result)
    /\ (IsHash(conn[s]) /\ conn[s].calls > 0 /\ conn[s].pc = "hashing")
         => IsLowerHex64(conn[s].hash)

HandlerRoutes ==
  {"/", "/err", "/internal-err", "/wait/{waitSec}", "/wait/",
   "/hash/{mb}/{iterations}", "/hash/{mb}", "/hash/"}

\* C7: every request completed by a handler route records exactly one
\* observation in http_request_duration_seconds, under its status code, a
\* handler name ("found" for "/") and its method.
C7_DurationObserved ==
  [][\A s \in Slots :
       (conn[s].pc # "done" /\ conn'[s].pc = "done" /\ conn'[s].pattern \in HandlerRoutes)
         => \E k \in DOMAIN httpRequestDuration :
              /\ k[1] = conn'[s].status
              /\ k[3] = MethodLabel(conn'[s].method)
              /\ conn'[s].pattern = "/" => k[2] = "found"
              /\ httpRequestDuration' = [httpRequestDuration EXCEPT ![k] = @ + 1]]_vars

\* C8: a request to exactly /err is answered 404 with an empty body, one to
\* exactly /internal-err 500 with an empty body, and one to / 200 with the
\* greeting, whatever the method and whatever was or is being served.
C8_FixedResponses ==
  \A s \in Slots :
    conn[s].pc = "done" =>
      /\ conn[s].path = <<Str_err>> => conn[s].status = 404 /\ conn[s].body = << >>
      /\ conn[s].path = <<Str_internal_err>> => conn[s].status = 500 /\ conn[s].body = << >>
      /\ conn[s].path = PathRoot =>
           conn[s].status = 200 /\ conn[s].body = <<"Hello from example application.">>

\* Witness of C8: /err has been answered to a POST on one connection and /
\* to a GET on the other, after an earlier request to /internal-err.
C8_Witness ==
  \E s \in Slots : \E t \in Slots \ {s} :
    /\ conn[s].pc = "done" /\ conn[s].path = <<Str_err>> /\ conn[s].method = "POST"
    /\ conn[s].status = 404
    /\ conn[t].pc = "done" /\ conn[t].path = PathRoot /\ conn[t].method = "GET"
    /\ httpRequestsTotal[<<500, "get">>] = 1

StaticRoutes == {"/", "/err", "/internal-err", "/metrics", "redirect"}

\* C9: while a wait request sleeps, any other connection can accept a
\* request; a request on another connection to /, /err, /internal-err or
\* /metrics can complete at once, and another wait request can go to sleep
\* and can wake up: the sleeper holds nothing they need.
C9_SleepBlocksNobody ==
  \A s \in Slots : \A t \in Slots \ {s} :
    conn[s].pc = "sleeping" =>
      /\ (conn[t].pc = "idle" /\ arrived < MaxRequests)
           => \A m \in Methods, p \in ServerPaths : ENABLED Arrive(t, m, p)
      /\ (conn[t].pc = "handler" /\ conn[t].pattern \in StaticRoutes)
           => ENABLED (ServeStatic(t) /\ conn'[t].pc = "done")
      /\ (conn[t].pc = "handler" /\ IsWait(conn[t])) => ENABLED WaitHandlerSleep(t)
      /\ conn[t].pc = "sleeping" => ENABLED WaitHandlerWake(t)

\* Witness of C9: a wait request that arrived while the first request was
\* asleep has itself slept and been answered, and the first is still asleep.
C9_Witness ==
  \E s \in Slots : \E t \in Slots \ {s} :
    /\ conn[s].pc = "sleeping"
    /\ conn[t].pc = "done" /\ IsWait(conn[t]) /\ conn[t].overlap
    /\ completed = 1

\* C10: for a byte count N >= 1 the loop of hashRandomData ends, having
\* processed P bytes in P/1024 iterations of one buffer each, with
\* N <= P < N + 1024.
C10_State ==
  LET f == hasher[1]
      N == SmallVal(f.bytesToProcess)
      P == SmallVal(f.bytesProcessed)
  IN  N >= 1 =>
        /\ P = f.written * 1024
        /\ P < N + 1024
        /\ f.pc = "returned" => N <= P

=============================================================================
